---- MODULE Spec2Model ----
(***************************************************************************)
(* Model of src/src/instrument-context-module.js: the instrumenter made by *)
(* the default export, its two wrappers `context` and `module`, the test   *)
(* functions they install on the cloned regular expressions, and `report`. *)
(*                                                                         *)
(* Strings are sequences of one-character strings, so that a regular       *)
(* expression can be matched against them position by position.            *)
(***************************************************************************)
EXTENDS Integers, Sequences, FiniteSets, TLC

\* Number of test calls of one run (the history variables grow with each).
MaxCalls == 4

\* The strings the host passes to test.
Strings == {<<>>, <<"a">>, <<"b">>}

\* JavaScript null and undefined: values that are no string and no RegExp.
Null == <<"null">>
Undefined == [undefined |-> TRUE]

\* The regular expressions a caller hands to the wrappers: a literal source
\* (the empty source is /(?:)/, which matches everywhere), the g flag and
\* the lastIndex the object has at wrapping time. Here /(?:)/ and /a/g, the
\* second one already used once on a string starting with "a".
RegExps ==
    { [source |-> <<>>,    global |-> FALSE, lastIndex |-> 0],
      [source |-> <<"a">>, global |-> TRUE,  lastIndex |-> 1] }

VARIABLES
    handleContext,    \* TRUE iff the handleContext argument is a function
    handleModule,     \* TRUE iff the handleModule argument is a function
    contextRegex,     \* the wrapped clone, or Undefined
    moduleRegex,      \* the wrapped clone, or Undefined
    lastContext,      \* Null or the last matched context string
    lastModule,       \* Null or the last matched module string
    reportedContext,  \* the flag of report
    calls,            \* history: the test calls made so far, each with the
                      \* string tested, the result of the original test, the
                      \* slot's value before the call (prev), whether the call
                      \* assigned its slot and ran report (wrote), and the
                      \* lastContext, lastModule and reportedContext report saw
    log,              \* history: the callback invocations made so far
    refContext,       \* an unwrapped RegExp equal to the context clone, given the same tests
    refModule,        \* an unwrapped RegExp equal to the module clone, given the same tests
    origContext,      \* the caller's RegExp object handed to context, or Undefined
    origModule,       \* the caller's RegExp object handed to module, or Undefined
    contextObject,    \* which object the context slot holds, or "none"
    moduleObject,     \* which object the module slot holds, or "none"
    op,               \* the last operation called: "context", "module", "contextTest", "moduleTest"
    thrown            \* what the last operation threw, or "none"

vars == <<handleContext, handleModule, contextRegex, moduleRegex, lastContext,
          lastModule, reportedContext, calls, log, refContext, refModule,
          origContext, origModule, contextObject, moduleObject, op, thrown>>

----------------------------------------------------------------------------
(* The JavaScript values and built-ins the code relies on. *)

\* ToBoolean of a value that is null or a string: null and "" are falsy.
Truthy(v) == v # Null /\ v # <<>>

Min(S) == CHOOSE x \in S : \A y \in S : x <= y

\* The source occurs in s at 0-based position i.
MatchAt(source, s, i) ==
    /\ i + Len(source) <= Len(s)
    /\ \A k \in 1..Len(source) : s[i + k] = source[k]

\* RegExp.prototype.test: a global expression searches from lastIndex and
\* leaves lastIndex at the end of the match, or 0 on failure; another one
\* searches from 0 and leaves lastIndex alone.
RegExpTest(re, s) ==
    LET start == IF re.global THEN re.lastIndex ELSE 0
        found == {i \in start..Len(s) : MatchAt(re.source, s, i)}
    IN  IF found = {}
        THEN [result |-> FALSE,
              re |-> IF re.global THEN [re EXCEPT !.lastIndex = 0] ELSE re]
        ELSE [result |-> TRUE,
              re |-> IF re.global
                     THEN [re EXCEPT !.lastIndex = Min(found) + Len(re.source)]
                     ELSE re]

\* regexpClone: a new RegExp with the same source and flags; lastIndex is
\* li, which the installed version of the package either copies or leaves 0.
regexpClone(re, li) ==
    [source |-> re.source, global |-> re.global, lastIndex |-> li]

CloneLastIndex(re) == {0, re.lastIndex}

----------------------------------------------------------------------------
Init ==
    /\ handleContext \in BOOLEAN
    /\ handleModule \in BOOLEAN
    /\ contextRegex = Undefined
    /\ moduleRegex = Undefined
    /\ lastContext = Null
    /\ lastModule = Null
    /\ reportedContext = FALSE
    /\ calls = <<>>
    /\ log = <<>>
    /\ refContext = Undefined
    /\ refModule = Undefined
    /\ origContext = Undefined
    /\ origModule = Undefined
    /\ contextObject = "none"
    /\ moduleObject = "none"
    /\ op = "none"
    /\ thrown = "none"

----------------------------------------------------------------------------
(* report, lines 38-48. *)

\* The condition of the first if of report.
ContextGuard(hc, lc, lm, rep) == hc /\ Truthy(lc) /\ Truthy(lm) /\ ~rep

\* ModuleGuard that does not wait for a module match.
ModuleGuardContextOnly(hm, lc, lm) == hm /\ Truthy(lc)

\* ModuleGuard with the second if nested in the handleContext one.
ModuleGuardNeedsContextHandler(hm, lc, lm) ==
    hm /\ handleContext /\ Truthy(lc) /\ Truthy(lm)

\* The condition of the second if of report.
ModuleGuard(hm, lc, lm) == hm /\ Truthy(lc) /\ Truthy(lm)

\* ReportedAfter with the flag set before handleContext is invoked.
ReportedAfterEager(fireC, throwC, rep) == IF fireC THEN TRUE ELSE rep

\* reportedContext after the first if: set once handleContext has returned.
ReportedAfter(fireC, throwC, rep) == IF fireC /\ ~throwC THEN TRUE ELSE rep

\* lastModule after the second if: cleared once handleModule has returned.
LastModuleAfter(fireM, throwM, lm) == IF fireM /\ ~throwM THEN Null ELSE lm

\* ModuleEntry with the first two arguments of handleModule exchanged.
ModuleEntrySwapped(lm, lc, cre, mre, rm, n) ==
    [cb |-> "handleModule", module |-> lc, context |-> lm,
     contextRegex |-> cre, moduleRegex |-> mre, raised |-> rm, call |-> n]

\* handleContext(lastContext, contextRegex, moduleRegex), invoked by the
\* n-th test call and raising iff rc.
ContextEntry(lc, cre, mre, rc, n) ==
    [cb |-> "handleContext", context |-> lc, contextRegex |-> cre,
     moduleRegex |-> mre, raised |-> rc, call |-> n]

\* handleModule(lastModule, lastContext, contextRegex, moduleRegex), invoked
\* by the n-th test call and raising iff rm.
ModuleEntry(lm, lc, cre, mre, rm, n) ==
    [cb |-> "handleModule", module |-> lm, context |-> lc,
     contextRegex |-> cre, moduleRegex |-> mre, raised |-> rm, call |-> n]

\* report() run with lastContext = lc, lastModule = lm, reportedContext = rep
\* and the two wrapped expressions cre and mre, as the n-th test call's
\* report; rc and rm say whether handleContext and handleModule raise when
\* they are invoked. An exception raised by handleContext leaves report
\* before its second if.
report(lc, lm, rep, cre, mre, n, rc, rm) ==
    LET fireC  == ContextGuard(handleContext, lc, lm, rep)
        throwC == fireC /\ rc
        fireM  == ~throwC /\ ModuleGuard(handleModule, lc, lm)
        throwM == fireM /\ rm
        entryC == ContextEntry(lc, cre, mre, rc, n)
        entryM == ModuleEntry(lm, lc, cre, mre, rm, n)
    IN  [lastModule      |-> LastModuleAfter(fireM, throwM, lm),
         reportedContext |-> ReportedAfter(fireC, throwC, rep),
         fired           |-> (IF fireC THEN <<entryC>> ELSE <<>>)
                             \o (IF fireM THEN <<entryM>> ELSE <<>>),
         threw           |-> throwC \/ throwM]

\* What a test call that does not run report leaves behind.
NoReport == [lastModule |-> lastModule, reportedContext |-> reportedContext,
             fired |-> <<>>, threw |-> FALSE]

----------------------------------------------------------------------------
(* The wrappers, lines 51-98. *)

\* The object the caller hands to the wrapper of the given side; the caller
\* hands the two wrappers two objects.
CallerObject(side) == side \o " regExp"

\* The object regexpClone(obj) returns: an independent copy, an object other
\* than obj.
ClonedObject(obj) == "clone of " \o obj

\* WrappedObject with the slot assigned the argument instead of the clone.
WrappedObjectArgument(regExp, clone) == regExp

\* contextRegex = clone / moduleRegex = clone: of the wrapper's argument and
\* its clone, the object the wrapper stores in its slot. It is the slot's
\* object whose test the wrapper replaces, that the original test is applied
\* to, and that the wrapper returns.
WrappedObject(regExp, clone) == clone

\* AlreadyWrapped with both wrappers looking at the module slot.
AlreadyWrappedModuleSlot(slot) == moduleRegex # Undefined

\* if (contextRegex) / if (moduleRegex): a RegExp object is truthy.
AlreadyWrapped(slot) == slot # Undefined

\* ContextMatched without the comparison with lastContext.
ContextMatchedAny(result, s, lc) == result

\* The condition under which the wrapped context test records and reports.
ContextMatched(result, s, lc) == result /\ s # lc

\* ModuleMatched without the comparison with lastModule.
ModuleMatchedAny(result, s, lm) == result

\* The condition under which the wrapped module test records and reports.
ModuleMatched(result, s, lm) == result /\ s # lm

\* Return of the condition of the if instead of the result.
ReturnCondition(result, wrote) == wrote

\* return result;
Return(result, wrote) == result

\* context(regExp)
WrapContext(regExp, li) ==
    /\ op' = "context"
    /\ IF AlreadyWrapped(contextRegex)
       THEN /\ thrown' = "context can only be called once"
            /\ UNCHANGED <<contextRegex, refContext, origContext,
                           contextObject>>
       ELSE /\ thrown' = "none"
            /\ contextRegex' = regexpClone(regExp, li)
            /\ refContext' = regexpClone(regExp, li)
            /\ origContext' = regExp
            /\ contextObject' =
                  WrappedObject(CallerObject("context"),
                                ClonedObject(CallerObject("context")))
    /\ UNCHANGED <<handleContext, handleModule, moduleRegex, lastContext,
                   lastModule, reportedContext, calls, log, refModule,
                   origModule, moduleObject>>

\* module(regExp)
WrapModule(regExp, li) ==
    /\ op' = "module"
    /\ IF AlreadyWrapped(moduleRegex)
       THEN /\ thrown' = "module can only be called once"
            /\ UNCHANGED <<moduleRegex, refModule, origModule, moduleObject>>
       ELSE /\ thrown' = "none"
            /\ moduleRegex' = regexpClone(regExp, li)
            /\ refModule' = regexpClone(regExp, li)
            /\ origModule' = regExp
            /\ moduleObject' =
                  WrappedObject(CallerObject("module"),
                                ClonedObject(CallerObject("module")))
    /\ UNCHANGED <<handleContext, handleModule, contextRegex, lastContext,
                   lastModule, reportedContext, calls, log, refContext,
                   origContext, contextObject>>

\* contextRegex.test(s), lines 62-71.
ContextTest(s, rc, rm) ==
    /\ contextRegex # Undefined
    /\ Len(calls) < MaxCalls
    /\ LET t     == RegExpTest(contextRegex, s)
           n     == Len(calls) + 1
           wrote == ContextMatched(t.result, s, lastContext)
           lc    == IF wrote THEN s ELSE lastContext
           r     == IF wrote
                    THEN report(lc, lastModule, reportedContext, t.re,
                                moduleRegex, n, rc, rm)
                    ELSE NoReport
       IN  /\ contextRegex' = t.re
           /\ lastContext' = lc
           /\ lastModule' = r.lastModule
           /\ reportedContext' = r.reportedContext
           /\ log' = log \o r.fired
           /\ calls' = Append(calls,
                  [side |-> "context", s |-> s, result |-> t.result,
                   prev |-> lastContext, wrote |-> wrote,
                   lastContext |-> lc, lastModule |-> lastModule,
                   reportedBefore |-> reportedContext, threw |-> r.threw,
                   returned |-> Return(t.result, wrote),
                   expected |-> RegExpTest(refContext, s).result])
           /\ refContext' = RegExpTest(refContext, s).re
           /\ origContext' = IF contextObject = CallerObject("context")
                             THEN t.re ELSE origContext
           /\ thrown' = IF r.threw THEN "callback" ELSE "none"
    /\ op' = "contextTest"
    /\ UNCHANGED <<handleContext, handleModule, moduleRegex, refModule,
                   origModule, contextObject, moduleObject>>

\* moduleRegex.test(s), lines 86-95.
ModuleTest(s, rc, rm) ==
    /\ moduleRegex # Undefined
    /\ Len(calls) < MaxCalls
    /\ LET t     == RegExpTest(moduleRegex, s)
           n     == Len(calls) + 1
           wrote == ModuleMatched(t.result, s, lastModule)
           lm    == IF wrote THEN s ELSE lastModule
           r     == IF wrote
                    THEN report(lastContext, lm, reportedContext, contextRegex,
                                t.re, n, rc, rm)
                    ELSE NoReport
       IN  /\ moduleRegex' = t.re
           /\ lastModule' = r.lastModule
           /\ reportedContext' = r.reportedContext
           /\ log' = log \o r.fired
           /\ calls' = Append(calls,
                  [side |-> "module", s |-> s, result |-> t.result,
                   prev |-> lastModule, wrote |-> wrote,
                   lastContext |-> lastContext, lastModule |-> lm,
                   reportedBefore |-> reportedContext, threw |-> r.threw,
                   returned |-> Return(t.result, wrote),
                   expected |-> RegExpTest(refModule, s).result])
           /\ refModule' = RegExpTest(refModule, s).re
           /\ origModule' = IF moduleObject = CallerObject("module")
                            THEN t.re ELSE origModule
           /\ thrown' = IF r.threw THEN "callback" ELSE "none"
    /\ op' = "moduleTest"
    /\ UNCHANGED <<handleContext, handleModule, contextRegex, lastContext,
                   refContext, origContext, contextObject, moduleObject>>

Next ==
    \/ \E regExp \in RegExps : \E li \in CloneLastIndex(regExp) :
          WrapContext(regExp, li)
    \/ \E regExp \in RegExps : \E li \in CloneLastIndex(regExp) :
          WrapModule(regExp, li)
    \/ \E s \in Strings : \E rc, rm \in BOOLEAN : ContextTest(s, rc, rm)
    \/ \E s \in Strings : \E rc, rm \in BOOLEAN : ModuleTest(s, rc, rm)

Spec == Init /\ [][Next]_vars

----------------------------------------------------------------------------
(* The caller keeps using the expressions it handed to the wrappers. *)

\* test(s) called on the object handed to context: the object's own test,
\* unless that very object is the one in the slot, whose test is replaced.
OrigContextTest(s) ==
    /\ origContext # Undefined
    /\ IF contextObject = CallerObject("context")
       THEN ContextTest(s, FALSE, FALSE)
       ELSE /\ origContext' = RegExpTest(origContext, s).re
            /\ UNCHANGED <<handleContext, handleModule, contextRegex,
                           moduleRegex, lastContext, lastModule,
                           reportedContext, calls, log, refContext, refModule,
                           origModule, contextObject, moduleObject, op,
                           thrown>>

\* test(s) called on the object handed to module.
OrigModuleTest(s) ==
    /\ origModule # Undefined
    /\ IF moduleObject = CallerObject("module")
       THEN ModuleTest(s, FALSE, FALSE)
       ELSE /\ origModule' = RegExpTest(origModule, s).re
            /\ UNCHANGED <<handleContext, handleModule, contextRegex,
                           moduleRegex, lastContext, lastModule,
                           reportedContext, calls, log, refContext, refModule,
                           origContext, contextObject, moduleObject, op,
                           thrown>>

\* The instrumenter's operations, with callbacks that return, interleaved
\* with the caller's tests of its own two objects.
NextOrig ==
    \/ \E regExp \in RegExps : \E li \in CloneLastIndex(regExp) :
          WrapContext(regExp, li)
    \/ \E regExp \in RegExps : \E li \in CloneLastIndex(regExp) :
          WrapModule(regExp, li)
    \/ \E s \in Strings : ContextTest(s, FALSE, FALSE)
    \/ \E s \in Strings : ModuleTest(s, FALSE, FALSE)
    \/ \E s \in Strings : OrigContextTest(s)
    \/ \E s \in Strings : OrigModuleTest(s)

SpecOrig == Init /\ [][NextOrig]_vars

----------------------------------------------------------------------------
(* Callbacks that call test on a wrapped pattern before they return. The   *)
(* closure state is passed along as a record, since report reads it again  *)
(* after each callback. A test called by a callback runs to its end        *)
(* before the callback returns.                                            *)

\* The number of test calls in a run whose callbacks call test, the calls
\* made by callbacks included.
MaxReentrantCalls == 3

\* How deep test calls made by callbacks nest: the callbacks invoked at this
\* depth return at once.
MaxDepth == 1

\* What a callback does when invoked: return, or first test a wrapped
\* pattern against a string.
Behaviours ==
    {[kind |-> "return", side |-> "none", s |-> <<>>]}
        \cup [kind : {"test"}, side : {"context", "module"}, s : Strings]

\* The closure state and the histories.
Closure ==
    [contextRegex |-> contextRegex, moduleRegex |-> moduleRegex,
     lastContext |-> lastContext, lastModule |-> lastModule,
     reportedContext |-> reportedContext, calls |-> calls, log |-> log,
     refContext |-> refContext, refModule |-> refModule]

RECURSIVE reportOn(_, _, _, _, _)
RECURSIVE testOn(_, _, _, _, _, _)
RECURSIVE Callback(_, _, _)

\* The state a callback behaving as b leaves when invoked at depth d on the
\* closure state st: it may test a wrapped pattern (while the run has test
\* calls left and the nesting allows), the callbacks of that test behaving
\* as b too.
Callback(st, b, d) ==
    IF b.kind = "test" /\ d < MaxDepth /\ Len(st.calls) < MaxReentrantCalls
    THEN testOn(st, b.side, b.s, b, b, d + 1)
    ELSE st

\* report, lines 38-48, as the n-th call's report, at depth d on the closure
\* state st; handleContext behaves as bc and handleModule as bm.
reportOn(st, n, bc, bm, d) ==
    LET fireC == ContextGuard(handleContext, st.lastContext, st.lastModule,
                              st.reportedContext)
        st1 == IF fireC
               THEN Callback([st EXCEPT !.log = Append(@,
                              ContextEntry(st.lastContext, st.contextRegex,
                                           st.moduleRegex, FALSE, n))], bc, d)
               ELSE st
        st2 == [st1 EXCEPT !.reportedContext = ReportedAfter(fireC, FALSE, @)]
        fireM == ModuleGuard(handleModule, st2.lastContext, st2.lastModule)
        st3 == IF fireM
               THEN Callback([st2 EXCEPT !.log = Append(@,
                              ModuleEntry(st2.lastModule, st2.lastContext,
                                          st2.contextRegex, st2.moduleRegex,
                                          FALSE, n))], bm, d)
               ELSE st2
    IN  [st3 EXCEPT !.lastModule = LastModuleAfter(fireM, FALSE, @)]

\* The wrapped test of the given pattern, lines 62-71 and 86-95, called with
\* s at depth d on the closure state st.
testOn(st, side, s, bc, bm, d) ==
    LET n     == Len(st.calls) + 1
        isC   == side = "context"
        t     == RegExpTest(IF isC THEN st.contextRegex ELSE st.moduleRegex, s)
        ref   == RegExpTest(IF isC THEN st.refContext ELSE st.refModule, s)
        prev  == IF isC THEN st.lastContext ELSE st.lastModule
        wrote == IF isC THEN ContextMatched(t.result, s, prev)
                        ELSE ModuleMatched(t.result, s, prev)
        lc    == IF isC /\ wrote THEN s ELSE st.lastContext
        lm    == IF ~isC /\ wrote THEN s ELSE st.lastModule
        st1   == [st EXCEPT
                    !.contextRegex = IF isC THEN t.re ELSE @,
                    !.moduleRegex = IF isC THEN @ ELSE t.re,
                    !.refContext = IF isC THEN ref.re ELSE @,
                    !.refModule = IF isC THEN @ ELSE ref.re,
                    !.lastContext = lc,
                    !.lastModule = lm,
                    !.calls = Append(@,
                        [side |-> side, s |-> s, result |-> t.result,
                         prev |-> prev, wrote |-> wrote,
                         lastContext |-> lc, lastModule |-> lm,
                         reportedBefore |-> st.reportedContext,
                         threw |-> FALSE,
                         returned |-> Return(t.result, wrote),
                         expected |-> ref.result])]
    IN  IF wrote THEN reportOn(st1, n, bc, bm, d) ELSE st1

\* The step that leaves the closure state and the histories as st.
Adopt(st) ==
    /\ contextRegex' = st.contextRegex
    /\ moduleRegex' = st.moduleRegex
    /\ lastContext' = st.lastContext
    /\ lastModule' = st.lastModule
    /\ reportedContext' = st.reportedContext
    /\ calls' = st.calls
    /\ log' = st.log
    /\ refContext' = st.refContext
    /\ refModule' = st.refModule
    /\ thrown' = "none"
    /\ UNCHANGED <<handleContext, handleModule, origContext, origModule,
                   contextObject, moduleObject>>

\* contextRegex.test(s), handleContext behaving as bc and handleModule as bm.
ContextTestReentrant(s, bc, bm) ==
    /\ contextRegex # Undefined
    /\ Len(calls) < MaxReentrantCalls
    /\ Adopt(testOn(Closure, "context", s, bc, bm, 0))
    /\ op' = "contextTest"

\* moduleRegex.test(s), handleContext behaving as bc and handleModule as bm.
ModuleTestReentrant(s, bc, bm) ==
    /\ moduleRegex # Undefined
    /\ Len(calls) < MaxReentrantCalls
    /\ Adopt(testOn(Closure, "module", s, bc, bm, 0))
    /\ op' = "moduleTest"

NextReenter ==
    \/ \E regExp \in RegExps : \E li \in CloneLastIndex(regExp) :
          WrapContext(regExp, li)
    \/ \E regExp \in RegExps : \E li \in CloneLastIndex(regExp) :
          WrapModule(regExp, li)
    \/ \E s \in Strings : \E bc, bm \in Behaviours :
          ContextTestReentrant(s, bc, bm)
    \/ \E s \in Strings : \E bc, bm \in Behaviours :
          ModuleTestReentrant(s, bc, bm)

SpecReenter == Init /\ [][NextReenter]_vars

----------------------------------------------------------------------------
(* Reading the two histories. *)

Calls == 1..Len(calls)
Entries == 1..Len(log)

\* The i-th callback invocation is one of handleContext / of handleModule.
IsContextEntry(i) == log[i].cb = "handleContext"
IsModuleEntry(i) == log[i].cb = "handleModule"

\* No callback invocation so far has raised.
NoRaise == \A i \in Entries : ~log[i].raised

\* Call k assigned lastContext / lastModule (and so ran report).
ContextWrite(k) == calls[k].side = "context" /\ calls[k].wrote
ModuleWrite(k) == calls[k].side = "module" /\ calls[k].wrote

\* Call k returned a match of the context pattern / of the module pattern.
ContextMatch(k) == calls[k].side = "context" /\ calls[k].result
ModuleMatch(k) == calls[k].side = "module" /\ calls[k].result

\* Call k ran report with both lastContext and lastModule holding a
\* non-empty string.
BothSeen(k) ==
    /\ calls[k].wrote
    /\ Truthy(calls[k].lastContext)
    /\ Truthy(calls[k].lastModule)

\* The call that gave lastContext the value it has during call k (0 if none).
EpochStart(k) ==
    LET W == {j \in 1..k : ContextWrite(j)}
    IN  IF W = {} THEN 0 ELSE CHOOSE j \in W : \A i \in W : i <= j

\* Call k is the first in its context to run report with both sides seen.
FirstInContext(k) ==
    /\ BothSeen(k)
    /\ \A j \in EpochStart(k)..(k - 1) : j >= 1 => ~BothSeen(j)

----------------------------------------------------------------------------
(* C1 *)

\* C1: with handleContext provided (and no callback raising), onContext
\* fires once per distinct context value and again after the context value
\* changes: whenever report runs with a context and a module both seen,
\* onContext has been invoked with that context since lastContext took that
\* value, and it has been invoked once only since then. So context matches
\* "a", "a", "b", each with a module match, give onContext("a") and
\* onContext("b").
C1_OnContextOncePerContextValue ==
    (handleContext /\ NoRaise) =>
        \A k \in Calls : BothSeen(k) =>
            /\ \E i \in Entries :
                  /\ IsContextEntry(i)
                  /\ log[i].context = calls[k].lastContext
                  /\ EpochStart(k) <= log[i].call /\ log[i].call <= k
            /\ \A i, j \in Entries :
                  (/\ IsContextEntry(i) /\ IsContextEntry(j)
                   /\ EpochStart(k) <= log[i].call /\ log[i].call <= k
                   /\ EpochStart(k) <= log[j].call /\ log[j].call <= k) => i = j

----------------------------------------------------------------------------
(* C2 *)

\* lastContext has been overwritten after the i-th callback invocation and
\* no later than the j-th.
OverwrittenBetween(i, j) ==
    \E k \in Calls : log[i].call < k /\ k <= log[j].call /\ ContextWrite(k)

\* C2: onContext is never invoked twice while lastContext holds the same
\* value, whatever the callbacks do short of re-entering test.
C2_NeverTwicePerContextValue ==
    \A i, j \in Entries :
        (i < j /\ IsContextEntry(i) /\ IsContextEntry(j)) => OverwrittenBetween(i, j)

----------------------------------------------------------------------------
(* C3 *)

\* C3: with handleModule provided (and no callback raising), every test of
\* the module pattern that returned a match of a non-empty string has led to
\* a handleModule invocation carrying that string, or the string is still
\* the one held in lastModule, waiting for a context.
C3_EveryModuleMatchReported ==
    (handleModule /\ NoRaise) =>
        \A k \in Calls : (ModuleMatch(k) /\ Truthy(calls[k].s)) =>
            \/ \E i \in Entries :
                  /\ IsModuleEntry(i)
                  /\ log[i].module = calls[k].s
                  /\ log[i].call >= k
            \/ lastModule = calls[k].s

----------------------------------------------------------------------------
(* C4 *)

\* C4: with both callbacks provided (and no callback raising), onContext is
\* called at the first module match within a context, before that module's
\* onModule: the first call that runs report with a context and a module
\* both seen since lastContext took its value invokes handleContext with
\* that context and then handleModule with that module.
C4_OnContextAtFirstModuleMatch ==
    (handleContext /\ handleModule /\ NoRaise) =>
        \A k \in Calls : FirstInContext(k) =>
            \E i, j \in Entries :
                /\ i < j
                /\ log[i].call = k /\ log[j].call = k
                /\ IsContextEntry(i) /\ log[i].context = calls[k].lastContext
                /\ IsModuleEntry(j) /\ log[j].module = calls[k].lastModule

----------------------------------------------------------------------------
(* C5 *)

\* C5: a callback has been invoked only if at least one context test and at
\* least one module test have each matched; matching tests of one pattern
\* alone fire nothing.
C5_NoReportBeforeBothSeen ==
    log # <<>> =>
        /\ \E k \in Calls : ContextMatch(k)
        /\ \E k \in Calls : ModuleMatch(k)
        /\ \A i \in Entries :
              /\ \E k \in 1..log[i].call : ContextMatch(k)
              /\ \E k \in 1..log[i].call : ModuleMatch(k)

\* C5 witness: both callbacks provided, two context tests have matched
\* different strings, no module test has matched, and nothing has fired.
C5_Witness ==
    /\ handleContext /\ handleModule
    /\ Len(calls) >= 3
    /\ \E j, k \in Calls : j < k /\ ContextWrite(j) /\ ContextWrite(k)
    /\ \E k \in Calls : calls[k].side = "module"
    /\ \A k \in Calls : ~ModuleMatch(k)
    /\ log = <<>>

----------------------------------------------------------------------------
(* C6 *)

Count(S) == Cardinality(S)

\* The i-th callback invocation is an onModule invocation made by a context
\* test that follows an earlier onModule invocation with no module match in
\* between.
RefiredByContextTest(i) ==
    /\ IsModuleEntry(i)
    /\ calls[log[i].call].side = "context"
    /\ \E h \in 1..(i - 1) :
          /\ IsModuleEntry(h)
          /\ \A k \in (log[h].call + 1)..log[i].call : ~ModuleMatch(k)

\* C6: onModule invocations never outnumber the matching module
\* tests, and a context test that follows a report with no module match in
\* between does not invoke onModule.
C6_ModuleReportedOncePerMatch ==
    /\ Count({i \in Entries : IsModuleEntry(i)})
           <= Count({k \in Calls : ModuleMatch(k)})
    /\ \A i \in Entries : ~RefiredByContextTest(i)

----------------------------------------------------------------------------
(* C7 *)

\* Callback invocations made by call k.
FiredBy(k) == {i \in Entries : log[i].call = k}

\* C7: a test of the module pattern assigns lastModule and runs report
\* exactly when it matches a string other than the one lastModule holds at
\* that moment; a match of the string lastModule still holds triggers no
\* callback; and with onModule provided and a context seen, a match that
\* runs report fires onModule with that string (unless onContext raised
\* first). So matches "x", "x", "y" fire onModule for the second "x" only if
\* the first report cleared lastModule.
C7_ModuleReportsWhenDifferent ==
    \A k \in Calls : calls[k].side = "module" =>
        /\ calls[k].wrote <=> (calls[k].result /\ calls[k].s # calls[k].prev)
        /\ ~calls[k].wrote => FiredBy(k) = {}
        /\ (/\ handleModule
            /\ BothSeen(k)
            /\ \A i \in FiredBy(k) : ~(IsContextEntry(i) /\ log[i].raised))
           => \E i \in FiredBy(k) :
                 IsModuleEntry(i) /\ log[i].module = calls[k].s

\* C7 witness: against the context matched by call 1, the module tests 2, 3
\* and 4 have matched x, x and y, and onModule has fired for each, the
\* report of call 2 having cleared lastModule.
C7_Witness ==
    /\ handleModule /\ NoRaise
    /\ Len(calls) = 4
    /\ ContextWrite(1) /\ Truthy(calls[1].s)
    /\ ModuleMatch(2) /\ ModuleMatch(3) /\ ModuleMatch(4)
    /\ calls[2].s = calls[3].s /\ calls[3].s # calls[4].s
    /\ Truthy(calls[2].s) /\ Truthy(calls[4].s)
    /\ calls[3].prev = Null
    /\ \A k \in 2..4 : \E i \in FiredBy(k) :
          IsModuleEntry(i) /\ log[i].module = calls[k].s

----------------------------------------------------------------------------
(* C8 *)

\* What a wrapper call that throws must leave alone.
Instance == <<handleContext, handleModule, contextRegex, moduleRegex,
              lastContext, lastModule, reportedContext, calls, log>>

\* C8: a call of context (module) throws exactly when context (module) has
\* been called before, whatever the state of the other slot; a call that
\* throws leaves the instance unchanged and fires no callback; a first call
\* installs the wrapped pattern.
C8_SingleWrap ==
    [][ /\ (op' = "context" /\ contextRegex # Undefined) =>
              /\ thrown' = "context can only be called once"
              /\ UNCHANGED Instance
        /\ (op' = "context" /\ contextRegex = Undefined) =>
              /\ thrown' = "none"
              /\ contextRegex' # Undefined
              /\ UNCHANGED <<moduleRegex, lastContext, lastModule,
                             reportedContext, log>>
        /\ (op' = "module" /\ moduleRegex # Undefined) =>
              /\ thrown' = "module can only be called once"
              /\ UNCHANGED Instance
        /\ (op' = "module" /\ moduleRegex = Undefined) =>
              /\ thrown' = "none"
              /\ moduleRegex' # Undefined
              /\ UNCHANGED <<contextRegex, lastContext, lastModule,
                             reportedContext, log>>
      ]_vars

\* C8 witness: a second call of context has thrown, on an instance whose
\* callbacks have already fired.
C8_Witness ==
    /\ op = "context"
    /\ thrown = "context can only be called once"
    /\ log # <<>>
    /\ reportedContext

----------------------------------------------------------------------------
(* C9 *)

\* C9: every test call that returns, returns what the unwrapped expression
\* returns for the same string from the same lastIndex, and the wrapped
\* expressions' lastIndex is at every moment that of the unwrapped ones
\* given the same tests, whatever lastContext, lastModule, reportedContext
\* and the callbacks are.
C9_Transparency ==
    /\ contextRegex = refContext
    /\ moduleRegex = refModule
    /\ \A k \in Calls : ~calls[k].threw => calls[k].returned = calls[k].expected

\* C9 witness: the same wrapped pattern has returned a match and then no
\* match for the same string (its lastIndex had moved), on an instance
\* whose callbacks have fired.
C9_Witness ==
    /\ log # <<>>
    /\ \E j, k \in Calls :
          /\ j < k
          /\ calls[j].side = calls[k].side /\ calls[j].s = calls[k].s
          /\ ~calls[j].threw /\ ~calls[k].threw
          /\ calls[j].returned /\ ~calls[k].returned

----------------------------------------------------------------------------
(* C10 *)

\* handleContext raised in call k.
ContextRaisedIn(k) == \E i \in FiredBy(k) : IsContextEntry(i) /\ log[i].raised

\* C10: a callback that is not provided is never invoked, and a test call
\* throws only what an invoked callback raised; onModule, when provided,
\* fires in exactly the calls that run report with both sides seen (and in
\* which onContext did not raise), whether or not onContext is provided;
\* onContext, when provided, fires in exactly the calls that run report with
\* both sides seen and reportedContext false, whether or not onModule is
\* provided.
C10_OptionalCallbacks ==
    /\ ~handleContext => \A i \in Entries : ~IsContextEntry(i)
    /\ ~handleModule => \A i \in Entries : ~IsModuleEntry(i)
    /\ \A k \in Calls : calls[k].threw <=> \E i \in FiredBy(k) : log[i].raised
    /\ handleModule => \A k \in Calls :
          (\E i \in FiredBy(k) : IsModuleEntry(i))
              <=> (BothSeen(k) /\ ~ContextRaisedIn(k))
    /\ handleContext => \A k \in Calls :
          (\E i \in FiredBy(k) : IsContextEntry(i))
              <=> (BothSeen(k) /\ ~calls[k].reportedBefore)

\* C10 witness: an instrumenter created with onModule only has reported
\* two module matches.
C10_Witness ==
    /\ ~handleContext /\ handleModule
    /\ Len(log) >= 2
    /\ \A i \in Entries : IsModuleEntry(i) /\ ~log[i].raised

----------------------------------------------------------------------------
(* C11 *)

\* The string of the most recent test of the given pattern, among the first
\* k calls, whose original test matched.
MostRecentMatch(side, k) ==
    LET M == {j \in 1..k : calls[j].side = side /\ calls[j].result}
    IN  IF M = {} THEN Null
        ELSE calls[CHOOSE j \in M : \A h \in M : h <= j].s

\* A value is the wrapped expression: a RegExp with the source and flags of
\* the one the wrapper returned.
IsWrapped(re, slot) ==
    /\ re # Undefined
    /\ slot # Undefined
    /\ re.source = slot.source /\ re.global = slot.global

\* C11: every onContext invocation receives (LastContext, contextPattern,
\* modulePattern) and every onModule invocation (LastModule, LastContext,
\* contextPattern, modulePattern): the strings are those of the most recent
\* matching context test and module test at the time of the call, and the
\* patterns are the two wrapped ones, both defined.
C11_CallbackArguments ==
    \A i \in Entries :
        /\ log[i].context = MostRecentMatch("context", log[i].call)
        /\ IsModuleEntry(i) =>
              log[i].module = MostRecentMatch("module", log[i].call)
        /\ IsWrapped(log[i].contextRegex, contextRegex)
        /\ IsWrapped(log[i].moduleRegex, moduleRegex)

\* C11 witness: onModule has been invoked with a module string and a context
\* string that differ and are not the first ones matched.
C11_Witness ==
    \E i \in Entries : \E j, h \in 1..log[i].call :
        /\ IsModuleEntry(i)
        /\ ModuleMatch(j) /\ calls[j].s # log[i].module
        /\ ContextMatch(h) /\ calls[h].s # log[i].context
        /\ log[i].module # log[i].context

----------------------------------------------------------------------------
(* C12 *)

\* What belongs to the instrumenter, as opposed to the caller's objects.
Instrumenter == <<contextRegex, moduleRegex, lastContext, lastModule,
                  reportedContext, calls, log, op, thrown>>

\* The caller's object handed to the wrapper of the given side is the
\* object in the slot obj, the one whose test is replaced.
TestReplaced(side, obj) == obj = CallerObject(side)

\* C12: the wrappers work on a copy. The caller's objects keep their own
\* test; a wrapper call or a test of a wrapped pattern leaves the source,
\* flags and lastIndex of the caller's objects as they were (a first wrapper
\* call reads the object it is handed as the caller made it); and a test of
\* a caller's object fires no callback and changes nothing of the
\* instrumenter.
C12_OriginalUntouched ==
    [][ /\ ~TestReplaced("context", contextObject')
        /\ ~TestReplaced("module", moduleObject')
        /\ Instrumenter' # Instrumenter =>
              /\ origContext' = origContext \/
                    (origContext = Undefined /\ origContext' \in RegExps)
              /\ origModule' = origModule \/
                    (origModule = Undefined /\ origModule' \in RegExps)
        /\ (origContext # Undefined /\ origContext' # origContext) =>
              UNCHANGED <<Instrumenter, origModule>>
        /\ (origModule # Undefined /\ origModule' # origModule) =>
              UNCHANGED <<Instrumenter, origContext>>
      ]_vars

\* C12 witness: the wrapped context pattern (a copy of /a/g) has been
\* tested twice and callbacks have fired, the caller has tested its own
\* object, and the two objects are at different positions.
C12_Witness ==
    /\ log # <<>>
    /\ contextObject # "none" /\ moduleObject # "none"
    /\ origContext # Undefined /\ origContext.global
    /\ Count({k \in Calls : calls[k].side = "context"}) >= 2
    /\ origContext.lastIndex = 0
    /\ contextRegex.lastIndex = 1

----------------------------------------------------------------------------
(* C13 *)

\* C13 as stated: when callbacks call test themselves, onContext is still
\* never invoked twice while lastContext holds the same value, and no two
\* onModule invocations report the same module match.
C13_ReentrancySafe ==
    /\ \A i, j \in Entries :
          (i < j /\ IsContextEntry(i) /\ IsContextEntry(j)) =>
              \E k \in Calls :
                  log[i].call < k /\ k <= log[j].call /\ ContextWrite(k)
    /\ \A i, j \in Entries :
          (i < j /\ IsModuleEntry(i) /\ IsModuleEntry(j)) =>
              \E k \in Calls :
                  log[i].call < k /\ k <= log[j].call /\ ModuleWrite(k)

----------------------------------------------------------------------------
(* C14 *)

\* The callback invocations made by the n-th test call, in the log lg.
FiredIn(lg, n) == {i \in 1..Len(lg) : lg[i].call = n}

\* C14: a test call exits with the callback's error exactly when a callback
\* it invoked raised; no callback is invoked twice by one call and nothing
\* is invoked after a raise; and when handleContext raises, handleModule is
\* not invoked by that call, reportedContext is left false and lastModule
\* is left set.
C14_RaisePropagates ==
    [][ Len(calls') = Len(calls) + 1 =>
          LET n == Len(calls')
              F == FiredIn(log', n)
          IN  /\ (thrown' = "callback") <=> (\E i \in F : log'[i].raised)
              /\ calls'[n].threw <=> (thrown' = "callback")
              /\ \A i, j \in F : log'[i].cb = log'[j].cb => i = j
              /\ \A i \in F : log'[i].raised => i = Len(log')
              /\ \A i \in F :
                    (log'[i].cb = "handleContext" /\ log'[i].raised) =>
                        /\ \A j \in F : log'[j].cb # "handleModule"
                        /\ reportedContext' = FALSE
                        /\ lastModule' = calls'[n].lastModule
                        /\ Truthy(lastModule')
      ]_vars

\* C14 witness: with handleModule provided, the last test call ran report
\* with both strings seen, handleContext raised, and the call exited with
\* that error.
C14_Witness ==
    /\ handleModule
    /\ thrown = "callback"
    /\ log # <<>>
    /\ log[Len(log)].cb = "handleContext"
    /\ log[Len(log)].raised
    /\ log[Len(log)].call = Len(calls)
    /\ BothSeen(Len(calls))

----------------------------------------------------------------------------
(* C15 *)

\* C15: a test call that does not match, or that matches the string its
\* side already holds, leaves lastContext, lastModule and reportedContext
\* unchanged, invokes no callback and returns; a context test leaves
\* lastModule alone or, through report, clears it; a module test leaves
\* lastContext alone.
C15_Frame ==
    [][ Len(calls') = Len(calls) + 1 =>
          LET c    == calls'[Len(calls')]
              held == IF c.side = "context" THEN lastContext ELSE lastModule
          IN  /\ (~c.result \/ c.s = held) =>
                    /\ UNCHANGED <<lastContext, lastModule, reportedContext,
                                   log>>
                    /\ thrown' = "none"
              /\ c.side = "context" => lastModule' \in {lastModule, Null}
              /\ c.side = "module" => lastContext' = lastContext
      ]_vars

\* C15 witness: with both callbacks provided and a module match pending
\* after handleContext raised, the context pattern was tested again on the
\* string it already held, and matched.
C15_Witness ==
    /\ handleContext /\ handleModule
    /\ Len(calls) >= 3
    /\ LET c == calls[Len(calls)]
       IN  /\ c.side = "context" /\ c.result /\ c.s = c.prev
           /\ Truthy(c.s) /\ Truthy(c.lastModule)
           /\ ~c.reportedBefore

----------------------------------------------------------------------------
(* C16 *)

\* The onModule invocations made by call k.
ModuleFiredBy(k) == {i \in FiredBy(k) : IsModuleEntry(i)}

\* C16 as stated: with onModule provided and callbacks that return, once
\* the context pattern has matched a non-empty string, lastContext is never
\* null again and every later matching module test of a non-empty string
\* invokes onModule exactly once, with that string and the lastContext of
\* that moment.
C16_ContextStaysSet ==
    (handleModule /\ NoRaise) =>
        \A h, k \in Calls :
            (/\ h < k
             /\ ContextMatch(h) /\ Truthy(calls[h].s)
             /\ ModuleMatch(k) /\ Truthy(calls[k].s)) =>
                /\ calls[k].lastContext # Null
                /\ Count(ModuleFiredBy(k)) = 1
                /\ \A i \in ModuleFiredBy(k) :
                      /\ log[i].module = calls[k].s
                      /\ log[i].context = calls[k].lastContext

----------------------------------------------------------------------------
(* C17 *)

\* Call k is the first match of the context pattern, and the module pattern
\* has matched before it.
FirstContextAfterModules(k) ==
    /\ ContextMatch(k)
    /\ \A h \in 1..(k - 1) : ~ContextMatch(h)
    /\ \E j \in 1..(k - 1) : ModuleMatch(j)

\* C17 as stated: with onModule provided and callbacks that return, the
\* module matches made before any context match are not reported when they
\* happen, and the first context match c invokes onModule exactly once, with
\* the most recent module match and c.
C17_OnlyLatestModuleReported ==
    (handleModule /\ NoRaise) =>
        \A k \in Calls : FirstContextAfterModules(k) =>
            /\ \A i \in Entries : IsModuleEntry(i) => log[i].call >= k
            /\ Count(ModuleFiredBy(k)) = 1
            /\ \A i \in ModuleFiredBy(k) :
                  /\ log[i].module = MostRecentMatch("module", k)
                  /\ log[i].context = calls[k].s

----------------------------------------------------------------------------
(* C18 *)

\* C18 as stated: with onModule provided and callbacks that return, between
\* test calls lastContext and lastModule never both hold a matched string;
\* without onModule, lastModule is never cleared once it holds one.
C18_NotBothSet ==
    [][ /\ (handleModule /\ NoRaise') =>
              ~(lastContext' # Null /\ lastModule' # Null)
        /\ (~handleModule /\ lastModule # Null) => lastModule' # Null
      ]_vars

----------------------------------------------------------------------------
(* C19 *)

\* C19 as stated: with onModule provided and callbacks that return, a test
\* call that records a match while the context holds a matched string and
\* the module holds a matched string invokes onModule with the two, also
\* when one of them is the empty string.
C19_EmptyStringIsSet ==
    (handleModule /\ NoRaise) =>
        \A k \in Calls :
            (/\ calls[k].wrote
             /\ calls[k].lastContext # Null /\ calls[k].lastModule # Null
             /\ (calls[k].lastContext = <<>> \/ calls[k].lastModule = <<>>)) =>
                \E i \in ModuleFiredBy(k) :
                    /\ log[i].module = calls[k].lastModule
                    /\ log[i].context = calls[k].lastContext

====
